---------------------------- MODULE Spec2Model ----------------------------
(* A model of analytics.py: the classifier extract_event_type, and the      *)
(* run of main (load, classify, count, plot and save, export).              *)
(* Text values are sequences of one-character strings.                      *)
EXTENDS Integers, Sequences, FiniteSets, TLC

VARIABLES
    signature,     \* classifier: the argument of extract_event_type
    result,        \* classifier: what extract_event_type returned, and by which return
    input,         \* main: the file events.json as the run finds it
    pc,            \* main: index in Program of the next statement
    mainState,     \* main: "idle", "try", "except", "returned" or "unhandled"
    raised,        \* main: the class of the exception in flight, or "none"
    df,            \* main: the DataFrame
    event_counts,  \* main: the Series returned by value_counts
    reported,      \* main: the error messages printed by the except clauses
    written,       \* main: the files written, in the order of writing
    csv            \* main: the lines of processed_security_events.csv

vars == <<signature, result, input, pc, mainState, raised, df, event_counts,
          reported, written, csv>>

classifierVars == <<signature, result>>
mainVars == <<input, pc, mainState, raised, df, event_counts, reported, written, csv>>

(***************************************************************************)
(* Bounds                                                                  *)
(***************************************************************************)
MaxSigLen == 5
MaxEvents == 3

(***************************************************************************)
(* Text                                                                    *)
(***************************************************************************)
UpperLetters ==
    {"A", "B", "C", "D", "E", "F", "G", "H", "I", "J", "K", "L", "M",
     "N", "O", "P", "Q", "R", "S", "T", "U", "V", "W", "X", "Y", "Z"}

Digits == <<"0", "1", "2", "3", "4", "5", "6", "7", "8", "9">>

Range(s) == {s[i] : i \in DOMAIN s}

IsPrefix(p, s) == Len(p) <= Len(s) /\ SubSeq(s, 1, Len(p)) = p

UNKNOWN == <<"U", "N", "K", "N", "O", "W", "N">>

(***************************************************************************)
(* extract_event_type: re.match of uppercase letters, an optional hyphen,  *)
(* and more uppercase letters, at the start of the signature.              *)
(***************************************************************************)
LowerLetters ==
    {"a", "b", "c", "d", "e", "f", "g", "h", "i", "j", "k", "l", "m",
     "n", "o", "p", "q", "r", "s", "t", "u", "v", "w", "x", "y", "z"}

\* [A-Z] compiled with re.IGNORECASE.
IsUpperIgnoreCase(c) == c \in UpperLetters \cup LowerLetters

\* The character class [A-Z].
IsUpper(c) == c \in UpperLetters

RECURSIVE UpperRun(_, _)
\* The number of characters a greedy [A-Z]* consumes from position i on.
UpperRun(s, i) ==
    IF i <= Len(s) /\ IsUpper(s[i]) THEN 1 + UpperRun(s, i + 1) ELSE 0

\* re.match of the pattern at the start of s: whether it matched, and the end
\* of group 1. Each quantifier is greedy and nothing after it can fail, so no
\* backtracking happens.
re_match(s) ==
    LET n1 == UpperRun(s, 1)
        h  == IF n1 + 1 <= Len(s) /\ s[n1 + 1] = "-" THEN 1 ELSE 0
        n2 == UpperRun(s, n1 + h + 1)
    IN  IF n1 = 0
        THEN [matched |-> FALSE, end |-> 0]
        ELSE [matched |-> TRUE, end |-> n1 + h + n2]

\* The value returned, and the return statement that returned it.
extract_event_type(s) ==
    LET m == re_match(s)
    IN  IF m.matched
        THEN [path |-> "match", value |-> SubSeq(s, 1, m.end)]
        ELSE [path |-> "fallback", value |-> UNKNOWN]

(***************************************************************************)
(* The classifier alone, over every signature up to MaxSigLen characters.  *)
(***************************************************************************)
SigAlphabet == {"A", "Z", "-", "a", "1"}

Signatures == UNION {[1..n -> SigAlphabet] : n \in 0..MaxSigLen}

NoResult == [path |-> "none", value |-> <<>>]

NoDF == [columns |-> <<>>, rows |-> <<>>]

NoInput == [kind |-> "none", fields |-> <<>>, events |-> <<>>]

MainIdle ==
    /\ input = NoInput
    /\ pc = 0
    /\ mainState = "idle"
    /\ raised = "none"
    /\ df = NoDF
    /\ event_counts = <<>>
    /\ reported = <<>>
    /\ written = <<>>
    /\ csv = <<>>

InitClassifier ==
    /\ signature \in Signatures
    /\ result = NoResult
    /\ MainIdle

Apply ==
    /\ result = NoResult
    /\ result' = extract_event_type(signature)
    /\ UNCHANGED signature
    /\ UNCHANGED mainVars

NextClassifier == Apply

SpecClassifier == InitClassifier /\ [][NextClassifier]_vars

Returned == result # NoResult

StartsUpper(s) == s # <<>> /\ s[1] \in UpperLetters

(***************************************************************************)
(* Cells of the table: text, None, a datetime64 value (seconds since the   *)
(* epoch), NaT, an integer, NaN.                                           *)
(***************************************************************************)
Str(s) == [t |-> "str", v |-> s]
NoneCell == [t |-> "None", v |-> <<>>]
Datetime(secs) == [t |-> "datetime", v |-> secs]
NaT == [t |-> "NaT", v |-> <<>>]
IntCell(n) == [t |-> "int", v |-> n]
NaN == [t |-> "NaN", v |-> <<>>]

CellEq(a, b) == a.t = b.t /\ a.v = b.v

DigitVal(c) == (CHOOSE i \in DOMAIN Digits : Digits[i] = c) - 1

IsDigit(c) == c \in Range(Digits)

TwoDigits(s, i) == 10 * DigitVal(s[i]) + DigitVal(s[i + 1])

\* Days from 1970-01-01 to the civil date y-m-d (proleptic Gregorian).
days_from_civil(y, m, d) ==
    LET yy  == IF m <= 2 THEN y - 1 ELSE y
        era == yy \div 400
        yoe == yy - era * 400
        mp  == IF m > 2 THEN m - 3 ELSE m + 9
        doy == (153 * mp + 2) \div 5 + d - 1
        doe == yoe * 365 + yoe \div 4 - yoe \div 100 + doy
    IN  era * 146097 + doe - 719468

\* The civil date of a day count, as <<y, m, d>>.
civil_from_days(z) ==
    LET zz  == z + 719468
        era == zz \div 146097
        doe == zz - era * 146097
        yoe == (doe - doe \div 1460 + doe \div 36524 - doe \div 146096) \div 365
        doy == doe - (365 * yoe + yoe \div 4 - yoe \div 100)
        mp  == (5 * doy + 2) \div 153
        d   == doy - (153 * mp + 2) \div 5 + 1
        m   == IF mp < 10 THEN mp + 3 ELSE mp - 9
        y   == yoe + era * 400
    IN  <<IF m <= 2 THEN y + 1 ELSE y, m, d>>

IsLeap(y) == (y % 4 = 0 /\ y % 100 # 0) \/ y % 400 = 0

DaysInMonth(y, m) ==
    IF m = 2 THEN (IF IsLeap(y) THEN 29 ELSE 28)
    ELSE IF m \in {4, 6, 9, 11} THEN 30 ELSE 31

\* Whether text s is a date-time "YYYY-MM-DDTHH:MM:SS" that to_datetime parses.
Parseable(s) ==
    /\ Len(s) = 19
    /\ \A i \in {1, 2, 3, 4, 6, 7, 9, 10, 12, 13, 15, 16, 18, 19} : IsDigit(s[i])
    /\ s[5] = "-" /\ s[8] = "-" /\ s[11] = "T" /\ s[14] = ":" /\ s[17] = ":"
    /\ LET y == 100 * TwoDigits(s, 1) + TwoDigits(s, 3)
           m == TwoDigits(s, 6)
           d == TwoDigits(s, 9)
       IN  /\ m \in 1..12
           /\ d \in 1..DaysInMonth(y, m)
    /\ TwoDigits(s, 12) <= 23
    /\ TwoDigits(s, 15) <= 59
    /\ TwoDigits(s, 18) <= 59

\* The datetime64 value of a parseable text.
ParseDatetime(s) ==
    LET y == 100 * TwoDigits(s, 1) + TwoDigits(s, 3)
    IN  Datetime(days_from_civil(y, TwoDigits(s, 6), TwoDigits(s, 9)) * 86400
                 + TwoDigits(s, 12) * 3600 + TwoDigits(s, 15) * 60
                 + TwoDigits(s, 18))

\* pd.to_datetime of one value: a datetime64 value is returned as it is, a
\* text is parsed.
Convertible(c) == c.t = "datetime" \/ (c.t = "str" /\ Parseable(c.v))

to_datetime_value(c) == IF c.t = "datetime" THEN c ELSE ParseDatetime(c.v)

\* pd.to_datetime(col, errors='coerce').
to_datetime_coerce(col) ==
    [error |-> "none",
     values |-> [i \in DOMAIN col |->
                   IF Convertible(col[i]) THEN to_datetime_value(col[i]) ELSE NaT]]

\* pd.to_datetime(col): raises when any value cannot be parsed.
to_datetime(col) ==
    IF \E i \in DOMAIN col : ~Convertible(col[i])
    THEN [error |-> "ValueError", values |-> <<>>]
    ELSE [error |-> "none",
          values |-> [i \in DOMAIN col |-> to_datetime_value(col[i])]]

dt_minute(c) == IF c.t = "datetime" THEN IntCell((c.v \div 60) % 60) ELSE NaN

\* Series.dt.hour of one value.
dt_hour(c) == IF c.t = "datetime" THEN IntCell((c.v \div 3600) % 24) ELSE NaN

(***************************************************************************)
(* Text of a cell, as to_csv writes it.                                    *)
(***************************************************************************)
RECURSIVE IntText(_)
IntText(n) ==
    IF n < 10 THEN <<Digits[n + 1]>>
    ELSE Append(IntText(n \div 10), Digits[(n % 10) + 1])

Pad2(n) == <<Digits[(n \div 10) + 1], Digits[(n % 10) + 1]>>

DatetimeText(secs) ==
    LET ymd == civil_from_days(secs \div 86400)
        sod == secs % 86400
    IN  Pad2(ymd[1] \div 100) \o Pad2(ymd[1] % 100) \o <<"-">> \o Pad2(ymd[2])
        \o <<"-">> \o Pad2(ymd[3]) \o <<" ">> \o Pad2(sod \div 3600) \o <<":">>
        \o Pad2((sod \div 60) % 60) \o <<":">> \o Pad2(sod % 60)

CellText(c) ==
    CASE c.t = "str" -> c.v
      [] c.t = "int" -> IntText(c.v)
      [] c.t = "datetime" -> DatetimeText(c.v)
      [] OTHER -> <<>>

(***************************************************************************)
(* The DataFrame: its column names in order, and its rows in order, each   *)
(* row a function from column name to cell.                                *)
(***************************************************************************)
HasColumn(d, name) == name \in Range(d.columns)

Column(d, name) == [i \in DOMAIN d.rows |-> d.rows[i][name]]

\* df[name] = values: a new column is added last, an existing one replaced.
SetColumn(d, name, values) ==
    [columns |-> IF HasColumn(d, name) THEN d.columns ELSE Append(d.columns, name),
     rows    |-> [i \in DOMAIN d.rows |-> (name :> values[i]) @@ d.rows[i]]]

\* pd.DataFrame(data['events']) of records that all hold the keys `fields`, in
\* that order; of no record at all it has no column.
DataFrame(fields, events) ==
    [columns |-> IF events = <<>> THEN <<>> ELSE fields, rows |-> events]

Sum(f) ==
    LET RECURSIVE S(_)
        S(n) == IF n = 0 THEN 0 ELSE f[n] + S(n - 1)
    IN  S(Len(f))

CountOf(col, label) == Cardinality({i \in DOMAIN col : CellEq(col[i], label)})

Orderings(S) ==
    {f \in [1..Cardinality(S) -> S] : \A i, j \in DOMAIN f : i # j => f[i] # f[j]}

Labels(col) == {col[i] : i \in {j \in DOMAIN col : col[j].t = "str"}}

Table(col, order) ==
    [i \in DOMAIN order |-> [label |-> order[i], count |-> CountOf(col, order[i])]]

\* value_counts(sort=False): the labels in any order.
value_counts_unsorted(col) == {Table(col, o) : o \in Orderings(Labels(col))}

\* value_counts() that takes the label UNKNOWN for a missing value.
value_counts_dropUnknown(col) ==
    {Table(col, o) : o \in {p \in Orderings(Labels(col) \ {Str(UNKNOWN)}) :
        \A i, j \in DOMAIN p : i < j => CountOf(col, p[i]) >= CountOf(col, p[j])}}

\* Series.value_counts(): one entry per value that occurs (missing values
\* dropped), sorted by count, descending; the order among equal counts is any.
value_counts(col) ==
    {Table(col, o) : o \in {p \in Orderings(Labels(col)) :
        \A i, j \in DOMAIN p : i < j => CountOf(col, p[i]) >= CountOf(col, p[j])}}

\* df.to_csv(name): with the row index as a first, unnamed column.
to_csv_index(d) ==
    <<(<<"">> \o d.columns)>> \o
    [i \in DOMAIN d.rows |->
        <<IntText(i - 1)>> \o
        [j \in DOMAIN d.columns |-> CellText(d.rows[i][d.columns[j]])]]

\* df.to_csv(name, index=False): the header line, then one line per row.
to_csv(d) ==
    <<d.columns>> \o
    [i \in DOMAIN d.rows |->
        [j \in DOMAIN d.columns |-> CellText(d.rows[i][d.columns[j]])]]

(***************************************************************************)
(* The inputs: events.json missing, undecodable, not JSON, not an object,  *)
(* without "events", or with up to MaxEvents records of one shape.         *)
(***************************************************************************)
SigPortscan ==
    <<"P", "O", "R", "T", "S", "C", "A", "N", " ", "d", "e", "t", "e", "c",
      "t", "e", "d">>

SigSqlInjection ==
    <<"S", "Q", "L", "-", "I", "N", "J", "E", "C", "T", "I", "O", "N", " ",
      "a", "t", "t", "e", "m", "p", "t">>

SigMalware ==
    <<"m", "a", "l", "w", "a", "r", "e", ".", "e", "x", "e", " ", "e", "x",
      "e", "c", "u", "t", "e", "d">>

Ts0315 ==
    <<"2", "0", "2", "4", "-", "0", "1", "-", "0", "1", "T", "0", "3", ":",
      "1", "5", ":", "0", "0">>

Ts0345 ==
    <<"2", "0", "2", "4", "-", "0", "1", "-", "0", "1", "T", "0", "3", ":",
      "4", "5", ":", "0", "0">>

Ts2305 ==
    <<"2", "0", "2", "4", "-", "0", "2", "-", "2", "9", "T", "2", "3", ":",
      "0", "5", ":", "5", "9">>

TsHour25 ==
    <<"2", "0", "2", "4", "-", "0", "1", "-", "0", "1", "T", "2", "5", ":",
      "0", "0", ":", "0", "0">>

SrcIp ==
    <<"1", "0", ".", "0", ".", "0", ".", "1">>

SampleEvents ==
    {[signature |-> Str(SigPortscan), timestamp |-> Str(Ts0315),
      src_ip |-> Str(SrcIp), hour |-> IntCell(99)],
     [signature |-> Str(SigPortscan), timestamp |-> Str(Ts0345),
      src_ip |-> Str(SrcIp), hour |-> IntCell(99)],
     [signature |-> Str(SigSqlInjection), timestamp |-> Str(Ts2305),
      src_ip |-> Str(SrcIp), hour |-> IntCell(99)],
     [signature |-> Str(SigMalware), timestamp |-> Str(Ts0315),
      src_ip |-> Str(SrcIp), hour |-> IntCell(99)],
     [signature |-> NoneCell, timestamp |-> Str(Ts0345),
      src_ip |-> Str(SrcIp), hour |-> IntCell(99)],
     [signature |-> Str(SigSqlInjection), timestamp |-> Str(TsHour25),
      src_ip |-> Str(SrcIp), hour |-> IntCell(99)]}

FieldOrders ==
    {<<"signature", "timestamp">>,
     <<"src_ip", "signature", "timestamp", "hour">>,
     <<"timestamp", "src_ip">>,
     <<"signature", "src_ip">>}

Restrict(e, fields) == [f \in Range(fields) |-> e[f]]

Inputs ==
    {[kind |-> k, fields |-> <<>>, events |-> <<>>] :
        k \in {"missing", "undecodable", "invalid_json", "not_object", "no_events"}}
    \cup
    {[kind |-> "events", fields |-> f,
      events |-> [i \in DOMAIN es |-> Restrict(es[i], f)]] :
        f \in FieldOrders, es \in UNION {[1..n -> SampleEvents] : n \in 0..MaxEvents}}

(***************************************************************************)
(* main: the statements of the try block in the order they run, the calls  *)
(* to analyze_security_events, plot_event_distribution and                 *)
(* seaborn_visualization unfolded.                                         *)
(***************************************************************************)
Stmt(op, file) == [op |-> op, file |-> file]

ProgramCsvFirst ==
    <<Stmt("load_json_data", ""),
      Stmt("classify", ""),
      Stmt("value_counts", ""),
      Stmt("to_csv", "processed_security_events.csv"),
      Stmt("to_datetime", ""),
      Stmt("hour", ""),
      Stmt("savefig", "event_type_distribution.png"),
      Stmt("savefig", "hourly_event_distribution.png"),
      Stmt("to_datetime", ""),
      Stmt("hour", ""),
      Stmt("savefig", "seaborn_event_analysis.png")>>

Program ==
    <<Stmt("load_json_data", ""),
      Stmt("classify", ""),
      Stmt("value_counts", ""),
      Stmt("to_datetime", ""),
      Stmt("hour", ""),
      Stmt("savefig", "event_type_distribution.png"),
      Stmt("savefig", "hourly_event_distribution.png"),
      Stmt("to_datetime", ""),
      Stmt("hour", ""),
      Stmt("savefig", "seaborn_event_analysis.png"),
      Stmt("to_csv", "processed_security_events.csv")>>

\* The base class of each exception class the run can raise.
Base ==
    [FileNotFoundError |-> "OSError", OSError |-> "Exception",
     JSONDecodeError |-> "ValueError", UnicodeDecodeError |-> "ValueError",
     ValueError |-> "Exception", KeyError |-> "LookupError",
     LookupError |-> "Exception", TypeError |-> "Exception",
     AttributeError |-> "Exception", Exception |-> "BaseException"]

RECURSIVE IsSubclass(_, _)
IsSubclass(c, b) == c = b \/ (c \in DOMAIN Base /\ IsSubclass(Base[c], b))

Clause(class, message) == [class |-> class, message |-> message]

ExceptClausesBroadFirst ==
    <<Clause("Exception", "other"),
      Clause("FileNotFoundError", "missing_file"),
      Clause("JSONDecodeError", "malformed_json"),
      Clause("KeyError", "missing_key")>>

\* The except clauses of main, in order, each with the message it prints.
ExceptClauses ==
    <<Clause("FileNotFoundError", "missing_file"),
      Clause("JSONDecodeError", "malformed_json"),
      Clause("KeyError", "missing_key"),
      Clause("Exception", "other")>>

Ok(d) == [error |-> "none", df |-> d]
Err(e, d) == [error |-> e, df |-> d]

\* load_json_data: open, json.load, data['events'], pd.DataFrame.
load_json_data(inp) ==
    CASE inp.kind = "missing"      -> Err("FileNotFoundError", NoDF)
      [] inp.kind = "undecodable"  -> Err("UnicodeDecodeError", NoDF)
      [] inp.kind = "invalid_json" -> Err("JSONDecodeError", NoDF)
      [] inp.kind = "not_object"   -> Err("TypeError", NoDF)
      [] inp.kind = "no_events"    -> Err("KeyError", NoDF)
      [] OTHER                     -> Ok(DataFrame(inp.fields, inp.events))

\* classify that then keeps only the rows with a known type.
classify_dropUnknown(d) ==
    IF ~HasColumn(d, "signature") THEN Err("KeyError", d)
    ELSE LET col  == Column(d, "signature")
             keep == SelectSeq(d.rows,
                        LAMBDA r : r.signature.t = "str" /\ re_match(r.signature.v).matched)
         IN  IF \E i \in DOMAIN col : col[i].t # "str" THEN Err("TypeError", d)
             ELSE Ok(SetColumn([d EXCEPT !.rows = keep], "event_type",
                        [i \in DOMAIN keep |->
                            Str(extract_event_type(keep[i].signature.v).value)]))

\* df['event_type'] = df['signature'].apply(extract_event_type)
classify(d) ==
    IF ~HasColumn(d, "signature") THEN Err("KeyError", d)
    ELSE LET col == Column(d, "signature")
         IN  IF \E i \in DOMAIN col : col[i].t # "str" THEN Err("TypeError", d)
             ELSE Ok(SetColumn(d, "event_type",
                        [i \in DOMAIN col |-> Str(extract_event_type(col[i].v).value)]))

\* df['timestamp'] = pd.to_datetime(df['timestamp'])
convert_timestamp(d) ==
    IF ~HasColumn(d, "timestamp") THEN Err("KeyError", d)
    ELSE LET r == to_datetime(Column(d, "timestamp"))
         IN  IF r.error # "none" THEN Err(r.error, d)
             ELSE Ok(SetColumn(d, "timestamp", r.values))

\* df['hour'] = df['timestamp'].dt.hour
assign_hour(d) ==
    IF ~HasColumn(d, "timestamp") THEN Err("KeyError", d)
    ELSE LET col == Column(d, "timestamp")
         IN  IF \E i \in DOMAIN col : col[i].t \notin {"datetime", "NaT"}
             THEN Err("AttributeError", d)
             ELSE Ok(SetColumn(d, "hour", [i \in DOMAIN col |-> dt_hour(col[i])]))

Running(op) == mainState = "try" /\ pc \in DOMAIN Program /\ Program[pc].op = op

\* The statement ended: the next one, or the end of the try block.
Advance ==
    /\ pc' = pc + 1
    /\ mainState' = IF pc + 1 > Len(Program) THEN "returned" ELSE "try"
    /\ raised' = raised

\* The statement raised: control goes to the except clauses.
Raise(e) ==
    /\ pc' = pc
    /\ mainState' = "except"
    /\ raised' = e

\* A statement df = f(df) that may raise.
Transform(r) ==
    IF r.error # "none"
    THEN Raise(r.error) /\ df' = df
    ELSE Advance /\ df' = r.df

Load ==
    /\ Running("load_json_data")
    /\ Transform(load_json_data(input))
    /\ UNCHANGED <<input, event_counts, reported, written, csv, classifierVars>>

Classify ==
    /\ Running("classify")
    /\ Transform(classify(df))
    /\ UNCHANGED <<input, event_counts, reported, written, csv, classifierVars>>

ValueCounts ==
    /\ Running("value_counts")
    /\ IF ~HasColumn(df, "event_type")
       THEN Raise("KeyError") /\ UNCHANGED event_counts
       ELSE Advance /\ event_counts' \in value_counts(Column(df, "event_type"))
    /\ UNCHANGED <<input, df, reported, written, csv, classifierVars>>

ToDatetime ==
    /\ Running("to_datetime")
    /\ Transform(convert_timestamp(df))
    /\ UNCHANGED <<input, event_counts, reported, written, csv, classifierVars>>

Hour ==
    /\ Running("hour")
    /\ Transform(assign_hour(df))
    /\ UNCHANGED <<input, event_counts, reported, written, csv, classifierVars>>

\* fig.savefig / plt.savefig: the file is written, or the write fails.
SaveFig ==
    /\ Running("savefig")
    /\ \/ Advance /\ written' = Append(written, Program[pc].file)
       \/ Raise("OSError") /\ UNCHANGED written
    /\ UNCHANGED <<input, df, event_counts, reported, csv, classifierVars>>

\* df.to_csv('processed_security_events.csv', index=False)
ToCsv ==
    /\ Running("to_csv")
    /\ \/ /\ Advance
          /\ written' = Append(written, Program[pc].file)
          /\ csv' = to_csv(df)
       \/ Raise("OSError") /\ UNCHANGED <<written, csv>>
    /\ UNCHANGED <<input, df, event_counts, reported, classifierVars>>

\* The first except clause whose class the exception is an instance of prints
\* its message and main returns; with no such clause the exception leaves main.
Except ==
    /\ mainState = "except"
    /\ LET matching == {i \in DOMAIN ExceptClauses :
                           IsSubclass(raised, ExceptClauses[i].class)}
       IN  IF matching = {}
           THEN mainState' = "unhandled" /\ UNCHANGED <<raised, reported>>
           ELSE /\ mainState' = "returned"
                /\ raised' = "none"
                /\ reported' = Append(reported,
                       ExceptClauses[CHOOSE i \in matching :
                                       \A j \in matching : i <= j].message)
    /\ UNCHANGED <<pc, input, df, event_counts, written, csv, classifierVars>>

Init ==
    /\ input \in Inputs
    /\ pc = 1
    /\ mainState = "try"
    /\ raised = "none"
    /\ df = NoDF
    /\ event_counts = <<>>
    /\ reported = <<>>
    /\ written = <<>>
    /\ csv = <<>>
    /\ signature = <<>>
    /\ result = NoResult

Next ==
    \/ Load
    \/ Classify
    \/ ValueCounts
    \/ ToDatetime
    \/ Hour
    \/ SaveFig
    \/ ToCsv
    \/ Except

Spec == Init /\ [][Next]_vars

(***************************************************************************)
(* Properties                                                              *)
(***************************************************************************)
\* A statement op of Program has run to its end.
Ran(op) == \E i \in DOMAIN Program : i < pc /\ Program[i].op = op

TimesRan(op) == Cardinality({i \in DOMAIN Program : i < pc /\ Program[i].op = op})

Succeeded == mainState = "returned" /\ reported = <<>>

Failed == mainState = "returned" /\ pc <= Len(Program)

RECURSIVE HyphenRun(_, _)
\* The length of the longest run of uppercase-letter groups joined by single
\* hyphens that starts at position i of s.
HyphenRun(s, i) ==
    LET n == UpperRun(s, i)
    IN  IF n = 0 THEN 0
        ELSE IF i + n <= Len(s) /\ s[i + n] = "-" /\ UpperRun(s, i + n + 1) > 0
             THEN n + 1 + HyphenRun(s, i + n + 1)
             ELSE n

\* C1: for every signature that starts with an uppercase letter,
\* extract_event_type returns the whole leading run of uppercase-letter groups
\* joined by hyphens: nothing of it cut off, no trailing hyphen included.
C1_WholeLeadingRun ==
    (Returned /\ StartsUpper(signature))
        => result.value = SubSeq(signature, 1, HyphenRun(signature, 1))

\* C2: extract_event_type returns UNKNOWN, by its fallback return, exactly
\* when the signature does not start with an uppercase letter; otherwise it
\* returns, by its match return, a non-empty prefix of the signature.
C2_UnknownIffNotUpper ==
    Returned =>
        /\ ~StartsUpper(signature)
              => (result.path = "fallback" /\ result.value = UNKNOWN)
        /\ StartsUpper(signature)
              => /\ result.path = "match"
                 /\ result.value # <<>>
                 /\ IsPrefix(result.value, signature)

C2_Witness ==
    /\ Returned
    /\ signature = <<"a", "A", "-", "Z">>
    /\ result.value = UNKNOWN

\* C3: the counts of the frequency table sum to the number of records, every
\* record's event_type is the label of exactly one entry, and every entry
\* counts the records of its label, at least one.
C3_Conservation ==
    Ran("value_counts") =>
        LET col == Column(df, "event_type")
        IN  /\ Len(df.rows) = Len(input.events)
            /\ Sum([k \in DOMAIN event_counts |-> event_counts[k].count])
                 = Len(input.events)
            /\ \A i \in DOMAIN col :
                 Cardinality({k \in DOMAIN event_counts :
                                 CellEq(event_counts[k].label, col[i])}) = 1
            /\ \A k \in DOMAIN event_counts :
                 /\ event_counts[k].count >= 1
                 /\ event_counts[k].count =
                      Cardinality({i \in DOMAIN col :
                                      CellEq(col[i], event_counts[k].label)})

C3_Witness ==
    /\ Ran("value_counts")
    /\ Len(input.events) = 3
    /\ Len(event_counts) = 2
    /\ \E k \in DOMAIN event_counts : event_counts[k].label = Str(UNKNOWN)

\* C4: the frequency table is ordered from most to least frequent.
C4_Descending ==
    Ran("value_counts") =>
        \A i, j \in DOMAIN event_counts :
            i < j => event_counts[i].count >= event_counts[j].count

C4_Witness ==
    /\ Ran("value_counts")
    /\ Len(event_counts) = 2
    /\ event_counts[1].count = 2
    /\ event_counts[2].count = 1

\* The hour written in a date-time text "YYYY-MM-DDTHH:MM:SS".
HourOfText(s) == TwoDigits(s, 12)

\* C5: once the hour column is set, each record's hour is the hour-of-day of
\* its own timestamp, in 0..23, also after seaborn_visualization has computed
\* timestamp and hour a second time.
C5_HourOfOwnTimestamp ==
    Ran("hour") =>
        \A i \in DOMAIN df.rows :
            /\ df.rows[i].hour.t = "int"
            /\ df.rows[i].hour.v \in 0..23
            /\ df.rows[i].hour.v = HourOfText(input.events[i].timestamp.v)

C5_Witness ==
    /\ TimesRan("hour") = 2
    /\ Len(df.rows) >= 2
    /\ input.events[1].timestamp = Str(Ts0315)
    /\ input.events[2].timestamp = Str(Ts0345)
    /\ df.rows[1].hour = IntCell(3)
    /\ df.rows[2].hour = IntCell(3)

\* The table read back from the lines of a CSV file with a header line.
read_csv(lines) == [columns |-> Head(lines), rows |-> Tail(lines)]

Field(t, i, name) ==
    t.rows[i][CHOOSE j \in DOMAIN t.columns : t.columns[j] = name]

\* C6: after a run without error the CSV, read back, has one row per input
\* record, in input order, and its columns are the input fields, event_type
\* and hour, each once, with no index column.
C6_CsvRoundTrip ==
    Succeeded =>
        /\ csv # <<>>
        /\ LET t == read_csv(csv)
           IN  /\ Len(t.rows) = Len(input.events)
               /\ {"event_type", "hour"} \subseteq Range(t.columns)
               /\ Range(input.fields) \subseteq Range(t.columns)
               /\ Range(t.columns) \subseteq Range(input.fields) \cup {"event_type", "hour"}
               /\ Cardinality(Range(t.columns)) = Len(t.columns)
               /\ \A i \in DOMAIN t.rows :
                    /\ Len(t.rows[i]) = Len(t.columns)
                    /\ Field(t, i, "signature") = input.events[i].signature.v
                    /\ Field(t, i, "hour")
                         = IntText(HourOfText(input.events[i].timestamp.v))

C6_Witness ==
    /\ Succeeded
    /\ Len(csv) = 4
    /\ input.events[1].signature = Str(SigMalware)
    /\ input.events[2].signature = Str(SigSqlInjection)
    /\ input.events[3].signature = Str(SigPortscan)

\* The message class of the failure of a failed run, by its cause: the
\* statement that failed and the input it failed on.
MessageOfCause(timestampIsExpected) ==
    CASE input.kind = "missing" -> "missing_file"
      [] input.kind = "invalid_json" -> "malformed_json"
      [] input.kind = "no_events" -> "missing_key"
      [] input.kind = "events" /\ Program[pc].op = "classify"
            /\ (input.events = <<>> \/ "signature" \notin Range(input.fields))
            -> "missing_key"
      [] timestampIsExpected /\ input.kind = "events"
            /\ Program[pc].op = "to_datetime"
            /\ "timestamp" \notin Range(input.fields)
            -> "missing_key"
      [] OTHER -> "other"

SomeTimestampUnparseable ==
    /\ input.kind = "events"
    /\ "timestamp" \in Range(input.fields)
    /\ \E i \in DOMAIN input.events : ~Parseable(input.events[i].timestamp.v)

\* The run has set no hour: the table has no hour column but one it loaded.
NoHourProduced ==
    HasColumn(df, "hour") =>
        /\ "hour" \in Range(input.fields)
        /\ \A i \in DOMAIN df.rows : CellEq(df.rows[i].hour, input.events[i].hour)

C9_Original ==
    Ran("load_json_data") =>
        /\ Len(df.rows) = Len(input.events)
        /\ \A i \in DOMAIN df.rows : \A f \in Range(input.fields) :
               CellEq(df.rows[i][f], input.events[i][f])

\* Text a with the "T" of a date-time text b as a space.
SameInstant(a, b) == Len(b) = 19 /\ a = [b EXCEPT ![11] = " "]

\* C9: the records stay as many and in input order; every loaded field but
\* timestamp (and but a field named event_type or hour) holds its loaded
\* value; timestamp holds its loaded text or, once converted, the date-time
\* value of that text; the table exported is the loaded fields, event_type and
\* hour.
C9_AddsColumnsConvertsTimestamp ==
    Ran("load_json_data") =>
        /\ Len(df.rows) = Len(input.events)
        /\ \A i \in DOMAIN df.rows :
              /\ \A f \in Range(input.fields) \ {"timestamp", "event_type", "hour"} :
                    CellEq(df.rows[i][f], input.events[i][f])
              /\ "timestamp" \in Range(input.fields) =>
                    \/ CellEq(df.rows[i].timestamp, input.events[i].timestamp)
                    \/ /\ df.rows[i].timestamp.t = "datetime"
                       /\ SameInstant(DatetimeText(df.rows[i].timestamp.v),
                                      input.events[i].timestamp.v)
        /\ IsPrefix(input.fields, df.columns) \/ df.columns = <<>>
        /\ Ran("to_datetime") =>
              \A i \in DOMAIN df.rows : df.rows[i].timestamp.t = "datetime"
        /\ Succeeded =>
              /\ Range(df.columns) = Range(input.fields) \cup {"event_type", "hour"}
              /\ Head(csv) = df.columns

C9_Witness ==
    /\ Succeeded
    /\ Len(df.rows) = 3
    /\ input.fields = <<"src_ip", "signature", "timestamp", "hour">>
    /\ df.columns = <<"src_ip", "signature", "timestamp", "hour", "event_type">>
    /\ df.rows[1].src_ip = Str(SrcIp)
    /\ df.rows[1].timestamp.t = "datetime"

ArtifactOrder ==
    <<"event_type_distribution.png", "hourly_event_distribution.png",
      "seaborn_event_analysis.png", "processed_security_events.csv">>

\* C10: in every step of a run the files written stay a prefix of the fixed
\* order (the two matplotlib images, the seaborn image, the CSV), grow by at
\* most one file, and do not grow once a failure has been reported.
C10_ArtifactOrder ==
    [][/\ IsPrefix(written', ArtifactOrder)
       /\ IsPrefix(written, written')
       /\ Len(written') <= Len(written) + 1
       /\ reported # <<>> => written' = written]_vars

C10_Witness ==
    /\ Failed
    /\ reported = <<"other">>
    /\ Program[pc].op = "to_csv"
    /\ Len(written) = 3
    /\ csv = <<>>

=============================================================================
